---- MODULE Spec2Model ----
(***************************************************************************)
(* Longest Lyndon subsequence of a byte sequence (src/src/main.rs).        *)
(*                                                                         *)
(* Text positions are 0-based as in the source; a TLA+ sequence is         *)
(* 1-based, so the byte at position i of text t is t[i + 1].               *)
(***************************************************************************)
EXTENDS Integers, Sequences, FiniteSets, TLC

\* ------------------------------------------------------------------ bounds
\* longest text (and longest file) explored
MaxLen == 6

\* byte values the explored texts are drawn from: two ordinary letters, the
\* largest value the occurrence table can hold, and the largest u8
Alphabet == {97, 98, 254, 255}

\* ------------------------------------------------------- program constants
\* u8::MAX
U8Max == 255

\* usize::MAX, the "unset" marker of charmap and larray.  Only its being
\* larger than every text position matters; it is kept at the checker's
\* integer width.
UsizeMax == 2147483647

\* length of charmap: [usize::MAX; u8::MAX as usize]
CharmapLen == U8Max

\* ----------------------------------------------------------------- values
Texts == UNION {[1..n -> Alphabet] : n \in 0..MaxLen}

\* Option<usize> and the abnormal outcome of a call (an index panic or an
\* arithmetic-overflow panic)
None == [tag |-> "None"]
Some(i) == [tag |-> "Some", val |-> i]
Panic == [tag |-> "Panic"]
Ok(v) == [tag |-> "Ok", val |-> v]

\* struct StackElement { text_pos, period }
StackElement(p, q) == [text_pos |-> p, period |-> q]

\* text[i], i a 0-based position
At(t, i) == t[i + 1]

\* &text[start..]
SliceFrom(t, start) == SubSeq(t, start + 1, Len(t))

\* ------------------------------------------- leftmost_distinct_characters
\* the loop "for (i, c) in text.iter().enumerate().rev() { charmap[c] = i }"
\* with k elements still to visit; an index c outside the table panics
RECURSIVE CharmapScan(_, _, _)
CharmapScan(slice, k, cm) ==
    IF k = 0 THEN Ok(cm)
    ELSE LET c == slice[k] IN
         IF c >= CharmapLen THEN Panic
         ELSE CharmapScan(slice, k - 1, [cm EXCEPT ![c] = k - 1])

\* the scan written as "for i in (0..=text.len() - 1).rev()": the length
\* of an empty slice underflows
CharmapFromLast(slice) ==
    IF Len(slice) = 0 THEN Panic
    ELSE CharmapScan(slice, Len(slice),
                     [c \in 0..(CharmapLen - 1) |-> UsizeMax])

Charmap(slice) ==
    CharmapScan(slice, Len(slice), [c \in 0..(CharmapLen - 1) |-> UsizeMax])

\* charmap.into_iter().filter(|&x| x != usize::MAX)
CharmapFilter(cm) ==
    SelectSeq([j \in 1..CharmapLen |-> cm[j - 1]], LAMBDA x : x # UsizeMax)

\* the comparator with its arguments swapped, "text[b].cmp(text[a])": the
\* elements come out in descending order of key
SortedUnstableByDescending(s, slice) ==
    LET n == Len(s) IN
    {q \in {[j \in 1..n |-> s[p[j]]] : p \in Permutations(1..n)} :
        \A j \in 1..(n - 1) : At(slice, q[j]) >= At(slice, q[j + 1])}

\* sorted_unstable_by(|a, b| text[a].cmp(text[b])): every arrangement of the
\* elements that is ordered by key; elements of equal key may land in any
\* order
SortedUnstableBy(s, slice) ==
    LET n == Len(s) IN
    {q \in {[j \in 1..n |-> s[p[j]]] : p \in Permutations(1..n)} :
        \A j \in 1..(n - 1) : At(slice, q[j]) <= At(slice, q[j + 1])}

\* the possible outcomes of leftmost_distinct_characters(slice): Panic, or
\* Ok(list) for every list the sort may produce.  The table and the
\* filtered list are bound as elements of singleton sets, so that each is
\* computed once.
leftmost_distinct_characters(slice) ==
    UNION {IF cm.tag = "Panic" THEN {Panic}
           ELSE UNION {{Ok(l) : l \in SortedUnstableBy(f, sl)} :
                          f \in {CharmapFilter(cm.val)}} :
              <<sl, cm>> \in {<<slice, Charmap(slice)>>}}

\* -------------------------------------------------------- successor_element
\* find_map returning the position relative to the slice, "Some(v)"
RECURSIVE FindMapRelative(_, _, _, _)
FindMapRelative(list, t, start, value) ==
    IF list = <<>> THEN None
    ELSE IF At(t, start + Head(list)) >= value THEN Some(Head(list))
    ELSE FindMapRelative(Tail(list), t, start, value)

\* list.find_map(|v| if text[start + v] >= value { Some(start + v) } ...)
RECURSIVE FindMap(_, _, _, _)
FindMap(list, t, start, value) ==
    IF list = <<>> THEN None
    ELSE IF At(t, start + Head(list)) >= value THEN Some(start + Head(list))
    ELSE FindMap(Tail(list), t, start, value)

\* the possible outcomes of successor_element(text, start, value)
successor_element(t, start, value) ==
    IF start >= Len(t) THEN {None}
    ELSE {IF l.tag = "Panic" THEN Panic ELSE FindMap(l.val, t, start, value) :
            l \in leftmost_distinct_characters(SliceFrom(t, start))}

\* -------------------------------------------------------------- subsequence
subsequence(t, st) == [j \in 1..Len(st) |-> At(t, st[j].text_pos)]

\* --------------------------------------------------------- file2byte_vector
\* Option<u64> prefix_length: None or Some(n)
PrefixLengths == {None} \cup {Some(n) : n \in 0..(MaxLen + 1)}

Min(a, b) == IF a <= b THEN a ELSE b

file2byte_vector(contents, prefix_length) ==
    LET num_file_bytes == Len(contents)
        buffer_length == IF prefix_length.tag = "Some"
                         THEN Min(prefix_length.val, num_file_bytes)
                         ELSE num_file_bytes
    IN  SubSeq(contents, 1, buffer_length)

\* u8 addition "b + 1": the debug build panics on overflow, the release
\* build wraps
AddOne(b) == IF b < U8Max THEN {Ok(b + 1)} ELSE {Panic, Ok(0)}

\* ---------------------------------------------------------------- state
VARIABLES
    text,                 \* the argument of longest_lyndon_subsequence
    pc,                   \* position in the running function
    larray,               \* larray[k], k in 0..text.len()
    longest,              \* the local longest_lyndon_subsequence
    stack,
    lastchildedgelabel,
    upwardmove,
    seeds,                \* what the for-loop iterator has still to yield
    completed,            \* history: completed[k] is the set of positions at
                          \* which the search has so far completed (pushed)
                          \* a Lyndon subsequence of length k
    file,                 \* contents of the file file2byte_vector reads
    ret                   \* the last call and what it returned

vars == <<text, pc, larray, longest, stack, lastchildedgelabel, upwardmove,
          seeds, completed, file, ret>>

NoCall == [fn |-> "none"]

\* ------------------------------------------- longest_lyndon_subsequence
\* lines 63-69: the locals before the seed loop
Init ==
    /\ text \in Texts
    /\ pc = "call"
    /\ larray = [k \in 0..Len(text) |-> UsizeMax]
    /\ longest = <<>>
    /\ stack = <<>>
    /\ lastchildedgelabel = 0
    /\ upwardmove = FALSE
    /\ seeds = <<>>
    /\ completed = [k \in 0..Len(text) |-> {}]
    /\ file = <<>>
    /\ ret = NoCall

\* line 70: the iterator of the seed loop is built
Enter ==
    /\ pc = "call"
    /\ \E l \in leftmost_distinct_characters(text) :
          IF l.tag = "Panic"
          THEN /\ pc' = "panic"
               /\ UNCHANGED seeds
          ELSE /\ pc' = "for"
               /\ seeds' = l.val
    /\ UNCHANGED <<text, larray, longest, stack, lastchildedgelabel,
                   upwardmove, file, ret, completed>>

\* lines 70-77: the next seed is pushed
NextSeed ==
    /\ pc = "for"
    /\ seeds # <<>>
    /\ stack' = Append(stack, StackElement(Head(seeds), 1))
    /\ longest' = IF longest = <<>> THEN stack' ELSE longest
    /\ seeds' = Tail(seeds)
    /\ completed' = [completed EXCEPT ![1] = @ \cup {Head(seeds)}]
    /\ pc' = "while"
    /\ UNCHANGED <<text, larray, lastchildedgelabel, upwardmove, file, ret>>

\* line 80
ImmatureCharacter(t, st) ==
    At(t, st[(Len(st) - st[Len(st)].period) + 1].text_pos)

\* lines 81-85
CompareChar(t, st, up, label) ==
    IF up THEN label ELSE ImmatureCharacter(t, st)

\* where the loop "while !stack.is_empty()" goes after a body that left st
AfterBody(st) == IF st = <<>> THEN "for" ELSE "while"

\* the pop with "lastchildedgelabel = text[top.text_pos]": the label stays
\* at the byte of the exhausted entry
BacktrackSameLabel ==
    /\ upwardmove' = TRUE
    /\ lastchildedgelabel' = At(text, stack[Len(stack)].text_pos)
    /\ stack' = SubSeq(stack, 1, Len(stack) - 1)
    /\ pc' = AfterBody(stack')
    /\ UNCHANGED <<larray, longest, completed>>

\* lines 87-91: no successor, the top is exhausted
Backtrack ==
    LET top == stack[Len(stack)] IN
    \E s \in AddOne(At(text, top.text_pos)) :
        IF s.tag = "Panic"
        THEN /\ pc' = "panic"
             /\ upwardmove' = TRUE
             /\ UNCHANGED <<lastchildedgelabel, stack, larray, longest,
                            completed>>
        ELSE /\ upwardmove' = TRUE
             /\ lastchildedgelabel' = s.val
             /\ stack' = SubSeq(stack, 1, Len(stack) - 1)
             /\ pc' = AfterBody(stack')
             /\ UNCHANGED <<larray, longest, completed>>

\* the discard with "lastchildedgelabel = text[i]": the label does not move
\* past the discarded byte
PruneNoAdvance(i) ==
    /\ upwardmove' = TRUE
    /\ lastchildedgelabel' = At(text, i)
    /\ pc' = "while"
    /\ UNCHANGED <<stack, larray, longest, completed>>

\* lines 96-98: the candidate at i is discarded
Prune(i) ==
    \E s \in AddOne(At(text, i)) :
        IF s.tag = "Panic"
        THEN /\ pc' = "panic"
             /\ upwardmove' = TRUE
             /\ UNCHANGED <<lastchildedgelabel, stack, larray, longest,
                            completed>>
        ELSE /\ upwardmove' = TRUE
             /\ lastchildedgelabel' = s.val
             /\ pc' = "while"
             /\ UNCHANGED <<stack, larray, longest, completed>>

\* the period taken as the new length whatever the continuation character
NewPeriodAlwaysFull(t, st, i) == Len(st) + 1

\* the period of a word that breaks the pattern taken one too large
NewPeriodPastEnd(t, st, i) ==
    IF ImmatureCharacter(t, st) = At(t, i)
    THEN st[Len(st)].period
    ELSE Len(st) + 2

\* lines 100-104
NewPeriod(t, st, i) ==
    IF ImmatureCharacter(t, st) = At(t, i)
    THEN st[Len(st)].period
    ELSE Len(st) + 1

\* the comparison written "<=": a tie replaces the best
ImprovesOrTies(best, subsequence_length) == Len(best) <= subsequence_length

\* line 113
Improves(best, subsequence_length) == Len(best) < subsequence_length

\* lines 100-117: the candidate at i is pushed
Extend(i) ==
    LET subsequence_length == Len(stack) + 1
        new_period == NewPeriod(text, stack, i)
    IN  /\ stack' = Append(stack, StackElement(i, new_period))
        /\ IF new_period = subsequence_length
           THEN /\ larray' = [larray EXCEPT ![subsequence_length] = i]
                /\ completed' =
                      [completed EXCEPT ![subsequence_length] = @ \cup {i}]
                /\ longest' = IF Improves(longest, subsequence_length)
                              THEN stack' ELSE longest
           ELSE UNCHANGED <<larray, longest, completed>>
        /\ upwardmove' = FALSE
        /\ pc' = "while"
        /\ UNCHANGED lastchildedgelabel

\* the test written "larray[subsequence_length] >= i" with an unset entry
\* never dominating: a candidate is discarded when the table holds a
\* position at or behind it
DominatedFromBehind(la, subsequence_length, i) ==
    /\ la[subsequence_length] # UsizeMax
    /\ la[subsequence_length] >= i

\* the search without the larray test: no candidate is ever discarded
DominatedNever(la, subsequence_length, i) == FALSE

\* line 96
Dominated(la, subsequence_length, i) == la[subsequence_length] < i

\* lines 93-94: assert!(top.text_pos < i); assert!(compare_char <= text[i])
Asserts(top, compare_char, t, i) ==
    /\ top.text_pos < i
    /\ compare_char <= At(t, i)

\* lines 78-121: one iteration of the inner loop
While ==
    /\ pc = "while"
    /\ LET top == stack[Len(stack)]
           compare_char == CompareChar(text, stack, upwardmove,
                                       lastchildedgelabel)
       IN  \E r \in successor_element(text, top.text_pos + 1, compare_char) :
             CASE r.tag = "Panic" ->
                    /\ pc' = "panic"
                    /\ UNCHANGED <<larray, longest, stack,
                                   lastchildedgelabel, upwardmove, completed>>
               [] r.tag = "None" -> Backtrack
               [] r.tag = "Some" ->
                    IF ~Asserts(top, compare_char, text, r.val)
                    THEN /\ pc' = "panic"
                         /\ UNCHANGED <<larray, longest, stack, completed,
                                        lastchildedgelabel, upwardmove>>
                    ELSE IF Dominated(larray, Len(stack) + 1, r.val)
                    THEN Prune(r.val)
                    ELSE Extend(r.val)
    /\ UNCHANGED <<text, seeds, file, ret>>

\* line 123: the seed loop is over, the best is returned
Return ==
    /\ pc = "for"
    /\ seeds = <<>>
    /\ pc' = "done"
    /\ ret' = [fn |-> "longest_lyndon_subsequence", result |-> longest]
    /\ UNCHANGED <<text, larray, longest, stack, lastchildedgelabel,
                   upwardmove, seeds, file, completed>>

Next == Enter \/ NextSeed \/ While \/ Return

Spec == Init /\ [][Next]_vars

\* the function runs to completion once called (single-threaded, no
\* suspension points)
FairSpec == Spec /\ WF_vars(Next)

\* ------------------------------------------------ calls of the helpers
\* threshold bytes successor_element is asked for
Thresholds == {0, 97, 98, 99, 254, 255}

Idle(p) ==
    /\ pc = p
    /\ larray = [k \in 0..Len(text) |-> UsizeMax]
    /\ longest = <<>>
    /\ stack = <<>>
    /\ lastchildedgelabel = 0
    /\ upwardmove = FALSE
    /\ seeds = <<>>
    /\ completed = [k \in 0..Len(text) |-> {}]
    /\ ret = NoCall

PureInit ==
    /\ text \in Texts
    /\ file = <<>>
    /\ Idle("pure")

\* leftmost_distinct_characters(&text[start..]) is called
CallLeftmost ==
    /\ pc = "pure"
    /\ \E start \in 0..Len(text) :
       \E o \in leftmost_distinct_characters(SliceFrom(text, start)) :
          ret' = [fn |-> "leftmost_distinct_characters",
                  slice |-> SliceFrom(text, start), result |-> o]
    /\ pc' = "returned"
    /\ UNCHANGED <<text, larray, longest, stack, lastchildedgelabel,
                   upwardmove, seeds, file, completed>>

\* successor_element(text, start, value) is called
CallSuccessor ==
    /\ pc = "pure"
    /\ \E start \in 0..(Len(text) + 1), value \in Thresholds :
       \E o \in successor_element(text, start, value) :
          ret' = [fn |-> "successor_element", start |-> start,
                  value |-> value, result |-> o]
    /\ pc' = "returned"
    /\ UNCHANGED <<text, larray, longest, stack, lastchildedgelabel,
                   upwardmove, seeds, file, completed>>

PureNext == CallLeftmost \/ CallSuccessor

SpecPure == PureInit /\ [][PureNext]_vars

FileInit ==
    /\ file \in Texts
    /\ text = <<>>
    /\ Idle("file")

\* file2byte_vector(filename, prefix_length) is called on a readable file
CallFile2ByteVector ==
    /\ pc = "file"
    /\ \E p \in PrefixLengths :
          ret' = [fn |-> "file2byte_vector", prefix_length |-> p,
                  result |-> file2byte_vector(file, p)]
    /\ pc' = "returned"
    /\ UNCHANGED <<text, larray, longest, stack, lastchildedgelabel,
                   upwardmove, seeds, file, completed>>

FileNext == CallFile2ByteVector

SpecFile == FileInit /\ [][FileNext]_vars

\* ------------------------------------------------------------ vocabulary
\* a is lexicographically smaller than b
LexLess(a, b) ==
    \/ \E j \in 1..Min(Len(a), Len(b)) :
          /\ \A k \in 1..(j - 1) : a[k] = b[k]
          /\ a[j] < b[j]
    \/ /\ Len(a) < Len(b)
       /\ \A k \in 1..Len(a) : a[k] = b[k]

\* w rotated left by k
Rotation(w, k) == SubSeq(w, k + 1, Len(w)) \o SubSeq(w, 1, k)

\* w is strictly smaller than each of its proper rotations
IsLyndon(w) ==
    /\ Len(w) >= 1
    /\ \A k \in 1..(Len(w) - 1) : LexLess(w, Rotation(w, k))

\* the elements of a set of positions in ascending order
Ascending(S) ==
    [j \in 1..Cardinality(S) |->
        CHOOSE x \in S : Cardinality({y \in S : y < x}) = j - 1]

\* the bytes of t at the positions S, in text order
Project(t, S) == [j \in 1..Cardinality(S) |-> At(t, Ascending(S)[j])]

\* the byte sequences that are subsequences of t and Lyndon words
LyndonSubsequences(t) ==
    {w \in {Project(t, S) : S \in SUBSET (0..(Len(t) - 1))} : IsLyndon(w)}

\* the longest of them
MaximalLyndonSubsequences(t) ==
    {w \in LyndonSubsequences(t) :
        \A v \in LyndonSubsequences(t) : Len(v) <= Len(w)}

\* the positions of the entries of st are strictly increasing indices of t
IncreasingPositions(t, st) ==
    /\ \A j \in 1..Len(st) : st[j].text_pos \in 0..(Len(t) - 1)
    /\ \A j \in 1..(Len(st) - 1) : st[j].text_pos < st[j + 1].text_pos

Halted == pc \in {"done", "panic"}

Returned == pc = "done"

\* ------------------------------------------------------------------ C1
\* what C1 asks of a returned result: at least one entry, strictly
\* increasing positions inside the text, and Lyndon bytes
LyndonResult(t, st) ==
    /\ Len(st) >= 1
    /\ IncreasingPositions(t, st)
    /\ IsLyndon(subsequence(t, st))

\* C1: for every non-empty text, longest_lyndon_subsequence returns a
\* result of at least one entry whose positions are strictly increasing
\* indices of the text and whose projected bytes are a Lyndon word
C1_ReturnsLyndonSubsequence ==
    (text # <<>> /\ Halted) => (Returned /\ LyndonResult(text, ret.result))

\* the part of C1 the code keeps: whenever the call returns on a non-empty
\* text, the result is a Lyndon subsequence of it
C1_LyndonWhenReturned ==
    (text # <<>> /\ Returned) => LyndonResult(text, ret.result)

\* ------------------------------------------------------------------ C2
\* no Lyndon subsequence of t is longer than st
Maximal(t, st) == \A w \in LyndonSubsequences(t) : Len(w) <= Len(st)

\* C2: for every non-empty text the call returns a result that no Lyndon
\* subsequence of the text (enumerated by brute force) exceeds in length
C2_Maximality ==
    (text # <<>> /\ Halted) => (Returned /\ Maximal(text, ret.result))

\* the part of C2 the code keeps: a returned result is of maximal length
C2_MaximalWhenReturned ==
    (text # <<>> /\ Returned) => Maximal(text, ret.result)

\* ------------------------------------------------------------------ C3
\* the text has several Lyndon subsequences of the maximal length
SeveralMaximal(t) == Cardinality(MaximalLyndonSubsequences(t)) >= 2

\* w is the lexicographically smallest Lyndon subsequence of maximal length
SmallestMaximal(t, w) ==
    /\ w \in MaximalLyndonSubsequences(t)
    /\ \A v \in MaximalLyndonSubsequences(t) : v = w \/ LexLess(w, v)

\* C3: when several Lyndon subsequences of the maximal length exist, the
\* bytes returned are those of the lexicographically smallest of them
C3_TieBreak ==
    (Halted /\ SeveralMaximal(text)) =>
        (Returned /\ SmallestMaximal(text, subsequence(text, ret.result)))

\* the part of C3 the code keeps: a returned result is the smallest of the
\* maximal Lyndon subsequences
C3_SmallestWhenReturned ==
    (Returned /\ SeveralMaximal(text)) =>
        SmallestMaximal(text, subsequence(text, ret.result))

\* ------------------------------------------------------------------ C4
\* C4: the call halts on every text, and every inner loop that is entered
\* empties its stack, also along runs of prune steps
C4_Terminates ==
    /\ <>Halted
    /\ [](pc = "while" => <>(stack = <<>> \/ pc = "panic"))

\* a prune step has just been taken (the label is one past the byte of a
\* dominated position behind the top) and the next step prunes again
C4_Witness ==
    /\ pc = "while"
    /\ upwardmove
    /\ \E i \in (stack[Len(stack)].text_pos + 1)..(Len(text) - 1) :
          /\ lastchildedgelabel = At(text, i) + 1
          /\ Dominated(larray, Len(stack) + 1, i)
    /\ \E r \in successor_element(text, stack[Len(stack)].text_pos + 1,
                                  lastchildedgelabel) :
          /\ r.tag = "Some"
          /\ Dominated(larray, Len(stack) + 1, r.val)

\* ------------------------------------------------------------------ C5
\* C5: every byte value, 255 included, can occur in the text without the
\* occurrence table being indexed out of range (the call never panics)
C5_NoTableOutOfRange == pc # "panic"

\* ------------------------------------------------------------------ C6
\* C6: for the empty text no seed is pushed, nothing panics, and the call
\* returns the empty result, which subsequence projects to no bytes
C6_EmptyText ==
    text = <<>> =>
        /\ pc # "panic"
        /\ stack = <<>>
        /\ longest = <<>>
        /\ Returned => /\ ret.result = <<>>
                       /\ subsequence(text, ret.result) = <<>>

C6_Witness == text = <<>> /\ Returned

\* ------------------------------------------------------------------ C7
\* C7: the best result never gets shorter, and whenever it is replaced it
\* gets strictly longer; a completed word that only ties leaves it as it is
C7_BestOnlyGrows ==
    [][/\ Len(longest') >= Len(longest)
       /\ longest' # longest => Len(longest') > Len(longest)]_vars

\* a Lyndon word as long as the best, but another one, was just completed
C7_Witness ==
    /\ pc = "while"
    /\ stack # <<>>
    /\ ~upwardmove
    /\ stack[Len(stack)].period = Len(stack)
    /\ Len(stack) = Len(longest)
    /\ Len(stack) >= 2
    /\ stack # longest

\* ------------------------------------------------------------------ C8
\* C8: file2byte_vector called with prefix_length 0 returns the whole file
C8_PrefixZeroReadsAll ==
    (ret.fn = "file2byte_vector" /\ ret.prefix_length.tag = "Some"
        /\ ret.prefix_length.val = 0)
    => ret.result = file

\* ------------------------------------------------------------------ C9
\* the positions of t from start on whose byte is at least value
Reaching(t, start, value) ==
    {i \in start..(Len(t) - 1) : At(t, i) >= value}

\* the leftmost position among those of Reaching that carry the smallest
\* byte
LeftmostSmallest(t, start, value) ==
    CHOOSE i \in Reaching(t, start, value) :
        \A k \in Reaching(t, start, value) :
            \/ At(t, i) < At(t, k)
            \/ At(t, i) = At(t, k) /\ i <= k

SuccessorContract(t, start, value, result) ==
    IF Reaching(t, start, value) = {}
    THEN result = None
    ELSE result = Some(LeftmostSmallest(t, start, value))

\* C9: successor_element returns None when start is at or past the end or
\* no byte of text[start..] reaches value, and otherwise the leftmost
\* position in text[start..] of the smallest byte that reaches value
C9_Successor ==
    ret.fn = "successor_element" =>
        SuccessorContract(text, ret.start, ret.value, ret.result)

\* the part of C9 the code keeps: the contract holds of every call that
\* returns
C9_SuccessorWhenReturned ==
    (ret.fn = "successor_element" /\ ret.result # Panic) =>
        SuccessorContract(text, ret.start, ret.value, ret.result)

\* ----------------------------------------------------------------- C10
\* the byte values of slice
Range(slice) == {slice[j] : j \in 1..Len(slice)}

\* l holds one position per byte value of slice, each the leftmost of its
\* value, in strictly ascending order of value
LeftmostContract(slice, l) ==
    /\ \A j \in 1..Len(l) : l[j] \in 0..(Len(slice) - 1)
    /\ {At(slice, l[j]) : j \in 1..Len(l)} = Range(slice)
    /\ Len(l) = Cardinality(Range(slice))
    /\ \A j \in 1..Len(l) :
          \A i \in 0..(l[j] - 1) : At(slice, i) # At(slice, l[j])
    /\ \A j \in 1..(Len(l) - 1) : At(slice, l[j]) < At(slice, l[j + 1])

\* C10: leftmost_distinct_characters yields exactly one position per
\* distinct byte value of the slice, the leftmost of that value, in
\* strictly ascending order of byte value, whatever the unstable sort does
C10_LeftmostDistinct ==
    ret.fn = "leftmost_distinct_characters" =>
        /\ ret.result.tag = "Ok"
        /\ LeftmostContract(ret.slice, ret.result.val)
        /\ Cardinality(leftmost_distinct_characters(ret.slice)) = 1

\* the part of C10 the code keeps: the contract holds of every call that
\* returns
C10_LeftmostWhenReturned ==
    (ret.fn = "leftmost_distinct_characters" /\ ret.result.tag = "Ok") =>
        /\ LeftmostContract(ret.slice, ret.result.val)
        /\ Cardinality(leftmost_distinct_characters(ret.slice)) = 1

\* ----------------------------------------------------------------- C11
\* the successors the inner loop finds in the current state
Found ==
    IF pc = "while"
    THEN {r \in successor_element(text, stack[Len(stack)].text_pos + 1,
                                  CompareChar(text, stack, upwardmove,
                                              lastchildedgelabel)) :
            r.tag = "Some"}
    ELSE {}

\* the step discards the candidate at i without a push
Discarded(i) ==
    /\ stack' = stack
    /\ upwardmove' = TRUE
    /\ lastchildedgelabel' = At(text, i) + 1

\* the step pushes a new entry at position i
Pushed(i) ==
    /\ Len(stack') = Len(stack) + 1
    /\ SubSeq(stack', 1, Len(stack)) = stack
    /\ stack'[Len(stack')].text_pos = i

\* larray[k] has been written
Written(la, k) == la[k] # UsizeMax

\* C11 as stated: a found candidate i is discarded exactly when
\* larray[new_length] already holds a position >= i, and pushed otherwise
C11_DiscardedWhenHoldsLater ==
    [][\A r \in Found :
         LET new_length == Len(stack) + 1
             holds == Written(larray, new_length)
                         /\ larray[new_length] >= r.val
         IN  /\ Discarded(r.val) <=> holds
             /\ ~holds => Pushed(r.val)]_vars

\* C11 amended: a found candidate i is discarded (upward_move set,
\* last_child_edge_label set to byte-at(i) + 1, stack unchanged) exactly
\* when larray[new_length] holds a position strictly smaller than i; when
\* the entry is unset or holds a position >= i, an entry at i is pushed
C11_DiscardedWhenHoldsEarlier ==
    [][\A r \in Found :
         LET new_length == Len(stack) + 1
             earlier == larray[new_length] < r.val
         IN  /\ Discarded(r.val) <=> earlier
             /\ ~earlier => Pushed(r.val)]_vars

\* a candidate behind the position larray holds for its length was just
\* discarded
C11_Witness ==
    /\ pc = "while"
    /\ upwardmove
    /\ \E i \in (stack[Len(stack)].text_pos + 1)..(Len(text) - 1) :
          /\ lastchildedgelabel = At(text, i) + 1
          /\ Written(larray, Len(stack) + 1)
          /\ larray[Len(stack) + 1] < i

\* ----------------------------------------------------------------- C12
\* the first d entries of st
Prefix(st, d) == SubSeq(st, 1, d)

\* C12: at every depth d of the stack the entry has period d exactly when
\* the bytes of the first d entries are a Lyndon word; larray and the best
\* result change only at a push that completes a Lyndon word
C12_PeriodMarksLyndon ==
    /\ [](\A d \in 1..Len(stack) :
            stack[d].period = d <=>
                IsLyndon(subsequence(text, Prefix(stack, d))))
    /\ [][(larray' # larray \/ longest' # longest) =>
            /\ Len(stack') = Len(stack) + 1
            /\ Prefix(stack', Len(stack)) = stack
            /\ IsLyndon(subsequence(text, stack'))]_vars

\* the stack holds a Lyndon word of three or more bytes on top of a prefix
\* that is not one
C12_Witness ==
    /\ Len(stack) >= 3
    /\ stack[Len(stack)].period = Len(stack)
    /\ \E d \in 2..(Len(stack) - 1) : stack[d].period < d

\* ----------------------------------------------------------------- C13
\* C13: every stack entry at depth d has a period p with 1 <= p <= d, so
\* the index stack.len() - top.period of line 80 lies inside the stack
C13_PeriodInRange ==
    /\ \A d \in 1..Len(stack) : stack[d].period \in 1..d
    /\ stack # <<>> =>
          (Len(stack) - stack[Len(stack)].period) \in 0..(Len(stack) - 1)

\* the top entry has a period strictly between 1 and its depth
C13_Witness ==
    /\ pc = "while"
    /\ Len(stack) >= 4
    /\ stack[Len(stack)].period \in 2..(Len(stack) - 1)

\* ----------------------------------------------------------------- C14
\* C14: the stack's positions are strictly increasing indices of the text,
\* and every successor the loop finds lies behind the top's position
C14_PositionsIncrease ==
    /\ IncreasingPositions(text, stack)
    /\ \A r \in Found : stack[Len(stack)].text_pos < r.val

\* three entries are on the stack and a successor of the top was found
C14_Witness ==
    /\ Len(stack) >= 3
    /\ Found # {}

\* ----------------------------------------------------------------- C15
\* the largest and the smallest element of a non-empty set of positions
Rightmost(S) == CHOOSE x \in S : \A y \in S : y <= x
Leftmost(S) == CHOOSE x \in S : \A y \in S : x <= y

\* C15 as stated: every written larray[k] holds the rightmost position at
\* which a Lyndon subsequence of length k has been completed so far
C15_HoldsRightmostCompleted ==
    \A k \in DOMAIN larray :
        Written(larray, k) =>
            /\ completed[k] # {}
            /\ larray[k] = Rightmost(completed[k])

\* C15 amended: every written larray[k] holds the leftmost (smallest)
\* position at which a Lyndon subsequence of length k has been completed so
\* far in this run
C15_HoldsLeftmostCompleted ==
    \A k \in DOMAIN larray :
        Written(larray, k) =>
            /\ completed[k] # {}
            /\ larray[k] = Leftmost(completed[k])

\* Lyndon subsequences of one length were completed at two positions
C15_Witness ==
    \E k \in DOMAIN larray :
        /\ Written(larray, k)
        /\ Cardinality(completed[k]) >= 2

\* ----------------------------------------------------------------- C18
\* C18: every larray[k] starts unset and never increases: a write stores a
\* position at most the value it replaces, so a written entry is at most
\* every position at which a Lyndon subsequence of its length was completed;
\* steps that push nothing (pops, discards) leave larray as it is
C18_LarrayNeverIncreases ==
    /\ pc = "call" => \A k \in DOMAIN larray : ~Written(larray, k)
    /\ [](\A k \in DOMAIN larray :
            Written(larray, k) => \A p \in completed[k] : larray[k] <= p)
    /\ [][/\ \A k \in DOMAIN larray : larray'[k] <= larray[k]
          /\ Len(stack') <= Len(stack) => larray' = larray]_vars

\* an entry that was written before has just been lowered by a push
C18_Witness ==
    /\ pc = "while"
    /\ ~upwardmove
    /\ Len(stack) >= 2
    /\ stack[Len(stack)].period = Len(stack)
    /\ larray[Len(stack)] = stack[Len(stack)].text_pos
    /\ \E p \in completed[Len(stack)] : p > larray[Len(stack)]

\* ----------------------------------------------------------------- C16
\* the bytes of the text smaller than b
Below(t, b) == {c \in Range(t) : c < b}

\* C16 as stated: when a seed is pushed its period is 1 and upward_move is
\* false, so its first query compares against the seed's own byte; larray
\* and the best result carry over
C16_SeedStartsFresh ==
    [][NextSeed =>
         LET seed == stack'[Len(stack')] IN
         /\ seed.period = 1
         /\ upwardmove' = FALSE
         /\ CompareChar(text, stack', upwardmove', lastchildedgelabel')
               = At(text, seed.text_pos)
         /\ larray' = larray
         /\ longest # <<>> => longest' = longest]_vars

\* C16 amended: when a seed is pushed it is the only stack entry and its
\* period is 1; upward_move is false for the first seed only, and for every
\* later seed it is still true with last_child_edge_label one more than the
\* previous seed's byte (at most the seed's own byte), which is the
\* threshold of the seed's first query; larray and the best result carry
\* over
C16_SeedKeepsTraversalState ==
    [][NextSeed =>
         LET seed == stack'[Len(stack')]
             byte == At(text, seed.text_pos)
         IN  /\ stack' = <<seed>>
             /\ seed.period = 1
             /\ upwardmove' = (Below(text, byte) # {})
             /\ upwardmove' =>
                  /\ \E c \in Below(text, byte) :
                        /\ \A e \in Below(text, byte) : e <= c
                        /\ lastchildedgelabel' = c + 1
                  /\ lastchildedgelabel' <= byte
                  /\ CompareChar(text, stack', upwardmove',
                                 lastchildedgelabel') = lastchildedgelabel'
             /\ larray' = larray
             /\ longest # <<>> => longest' = longest]_vars

\* a later seed was just pushed (no query from it was made yet, the label
\* is not past its byte): the traversal state of the seed before it is
\* still there, and so is what the search has found
C16_Witness ==
    /\ pc = "while"
    /\ Len(stack) = 1
    /\ Cardinality(completed[1]) >= 2
    /\ upwardmove
    /\ lastchildedgelabel <= At(text, stack[1].text_pos)
    /\ \E k \in DOMAIN larray : Written(larray, k)

\* ----------------------------------------------------------------- C17
\* The variant of the search that sets upward_move to false at the start
\* of every seed, as a function of the text.  A search state is a record of
\* the locals; the steps are those of lines 78-121.
VariantLocals(t) ==
    [stack |-> <<>>, larray |-> [k \in 0..Len(t) |-> UsizeMax],
     longest |-> <<>>, label |-> 0, up |-> FALSE]

\* b + 1 where it does not overflow
Incremented(b) == (CHOOSE s \in AddOne(b) : s.tag = "Ok").val

\* one iteration of the inner loop
VariantBody(t, q) ==
    LET top == q.stack[Len(q.stack)]
        n == Len(q.stack) + 1
        r == CHOOSE x \in successor_element(t, top.text_pos + 1,
                              CompareChar(t, q.stack, q.up, q.label)) : TRUE
    IN  IF r.tag # "Some"
        THEN [q EXCEPT !.up = TRUE,
                       !.label = Incremented(At(t, top.text_pos)),
                       !.stack = SubSeq(q.stack, 1, Len(q.stack) - 1)]
        ELSE IF Dominated(q.larray, n, r.val)
        THEN [q EXCEPT !.up = TRUE, !.label = Incremented(At(t, r.val))]
        ELSE LET new_period == NewPeriod(t, q.stack, r.val)
                 pushed == Append(q.stack, StackElement(r.val, new_period))
             IN  IF new_period = n
                 THEN [q EXCEPT !.stack = pushed, !.up = FALSE,
                                !.larray[n] = r.val,
                                !.longest = IF Improves(q.longest, n)
                                            THEN pushed ELSE q.longest]
                 ELSE [q EXCEPT !.stack = pushed, !.up = FALSE]

\* the inner loop, until the stack is empty
RECURSIVE VariantWhile(_, _)
VariantWhile(t, q) ==
    IF q.stack = <<>> THEN q ELSE VariantWhile(t, VariantBody(t, q))

\* the seed loop; every seed starts with upward_move false
RECURSIVE VariantSeeds(_, _, _)
VariantSeeds(t, sds, q) ==
    IF sds = <<>> THEN q
    ELSE LET pushed == <<StackElement(Head(sds), 1)>>
         IN  VariantSeeds(t, Tail(sds),
                 VariantWhile(t, [q EXCEPT
                     !.stack = pushed,
                     !.up = FALSE,
                     !.longest = IF q.longest = <<>>
                                 THEN pushed ELSE q.longest]))

VariantRun(t) ==
    VariantSeeds(t, (CHOOSE l \in leftmost_distinct_characters(t) : TRUE).val,
                 VariantLocals(t))

\* C17: the first query of every seed, made with the upward_move and
\* last_child_edge_label the seed before it left behind, finds what a query
\* with the seed's own byte as threshold finds, and the call returns the
\* result and leaves the larray of the variant that clears upward_move at
\* every seed
C17_LeftoverStateIsHarmless ==
    /\ [][NextSeed =>
            LET seed == stack'[Len(stack')] IN
            successor_element(text, seed.text_pos + 1,
                CompareChar(text, stack', upwardmove', lastchildedgelabel'))
            = successor_element(text, seed.text_pos + 1,
                                At(text, seed.text_pos))]_vars
    /\ [](Returned =>
            LET v == VariantRun(text) IN
            /\ ret.result = v.longest
            /\ larray = v.larray)

\* a later seed was just pushed, the label left behind is below the seed's
\* own byte, and the seed has a successor
C17_Witness ==
    /\ pc = "while"
    /\ Len(stack) = 1
    /\ upwardmove
    /\ lastchildedgelabel < At(text, stack[1].text_pos)
    /\ Found # {}

\* ----------------------------------------------------------------- C19
\* t has no Lyndon subsequence of two or more bytes
OnlySingleLyndon(t) == \A w \in LyndonSubsequences(t) : Len(w) <= 1

\* the leftmost position of the smallest byte of a non-empty t
LeftmostOfSmallest(t) ==
    CHOOSE i \in 0..(Len(t) - 1) :
        /\ \A k \in 0..(Len(t) - 1) : At(t, i) <= At(t, k)
        /\ \A k \in 0..(i - 1) : At(t, k) # At(t, i)

\* the first seed becomes the best as it is pushed, before any query
FirstSeedIsProvisionalBest ==
    [][(NextSeed /\ longest = <<>>) =>
          /\ Len(stack') = 1
          /\ longest' = stack']_vars

\* C19: the first seed is recorded as provisional best before any
\* extension is tried, and for every non-empty text without a Lyndon
\* subsequence of two or more bytes the call returns exactly one entry, the
\* leftmost occurrence of the smallest byte, with period 1
C19_SingleEntryResult ==
    /\ FirstSeedIsProvisionalBest
    /\ []((text # <<>> /\ Halted /\ OnlySingleLyndon(text)) =>
            /\ Returned
            /\ ret.result = <<StackElement(LeftmostOfSmallest(text), 1)>>)

\* the part of C19 the code keeps: whenever the call returns on such a
\* text, the result is that one entry
C19_SingleEntryWhenReturned ==
    /\ FirstSeedIsProvisionalBest
    /\ []((text # <<>> /\ Returned /\ OnlySingleLyndon(text)) =>
            ret.result = <<StackElement(LeftmostOfSmallest(text), 1)>>)

====
